---------------------------- MODULE Spec2Model ----------------------------
(***************************************************************************)
(* A model of the device abstraction and command translation layer:        *)
(*   - the Lovense protocol handler (device/protocol/lovense.rs) on top of *)
(*     the Generic Command Manager,                                        *)
(*   - the relayed toy handle of the Lovense dongle                        *)
(*     (server/comm_managers/lovense_dongle/lovense_dongle_device_impl.rs),*)
(*   - the evdev hardware handle                                           *)
(*     (server/device/hardware/communication/evdev/evdev_hardware.rs),     *)
(*   - the evdev communication manager's scan                              *)
(*     (server/device/hardware/communication/evdev/evdev_comm_manager.rs), *)
(*   - the Lovense identification handshake and battery query,             *)
(*   - the Evdev protocol handler (server/device/protocol/evdev.rs).       *)
(* Wire commands are the ASCII strings the code formats.  Positions in a   *)
(* TLA+ sequence start at 1; position p stands for the code's index p - 1. *)
(***************************************************************************)
EXTENDS Integers, Sequences, FiniteSets, TLC

\* ------------------------------------------------------------------ bounds
\* The largest number of vibration motors of a modelled device.
MaxMotors == 2
\* Speeds (manager step values) range over 0..MaxSpeed.
MaxSpeed == 2
\* The number of messages the relay sends to one toy's listener.
MaxIncoming == 2
\* The number of messages the shared outgoing channel holds.
MaxOutgoing == 2
\* The number of writes the evdev writer queue holds in the model (the code's
\* channel holds 256).
MaxWriteQueue == 2
\* The largest number of entries of the scanned input directory.
MaxCandidates == 2
\* The number of notifications that wait in a subscription's receiver.
MaxPending == 2
\* The largest number of entries of a scalar command set.
MaxActuators == 2
\* u16::MAX
U16_MAX == 65535

VARIABLES
  \* --- Lovense protocol handler and its Generic Command Manager
  motors,             \* number of vibration motors (device attributes)
  vibrations,         \* manager: last-sent value per motor
  rotations,          \* manager: last-sent <<speed, clockwise>> of rotator 0
  rotation_direction, \* Lovense.rotation_direction (AtomicBool)
  lastOp,             \* handler that ran last: "none", "vibrate", "rotate"
  lastCmd,            \* the command it was given
  lastDelta,          \* what the manager returned to it
  writes,             \* the writes it awaited on the device, in order
  lastResult,         \* how it resolved: "Ok", "InvalidCommand", "WriteError"
  speedWriteFailed,   \* history: some "Rotate:<n>;" write has failed
  lastFailAt          \* which of its writes failed (0: none)

lovenseVars == <<motors, vibrations, rotations, rotation_direction,
                 lastOp, lastCmd, lastDelta, writes, lastResult,
                 speedWriteFailed, lastFailAt>>

VARIABLES
  \* --- the relayed toy handle of the Lovense dongle
  connected,          \* LovenseDongleDeviceImpl.connected (AtomicBool)
  device_incoming,    \* messages in the toy's incoming channel
  incoming_open,      \* the relay still holds the incoming channel's sender
  arrived,            \* history: every message the relay has sent, in order
  listener,           \* the spawned listener task: "running" or "done"
  events,             \* what the listener sent on device_event_sender
  device_outgoing,    \* messages in the shared outgoing channel
  outgoing_open,      \* the relay still holds the outgoing channel's receiver
  lastWrite,          \* the last write_value call and its result
  writeTick,          \* flips at every write_value call that resolves
  lastDisconnect      \* the last disconnect() call and its result

dongleVars == <<connected, device_incoming, incoming_open, arrived, listener,
                events, device_outgoing, outgoing_open, lastWrite, writeTick,
               lastDisconnect>>

VARIABLES
  \* --- the evdev hardware handle
  ev_connected,       \* EvdevDeviceImpl.connected (AtomicBool)
  write_queue,        \* data in the write_sender / write_receiver channel
  writer,             \* the writer thread: "running" or "exited"
  effect_nodrop,      \* magnitude of the effect the writer keeps playing
  lastEvWrite,        \* the last write_value call on the handle and its result
  lastEvDisconnect    \* the last disconnect() call on the handle and its result

evdevVars == <<ev_connected, write_queue, writer, effect_nodrop, lastEvWrite,
               lastEvDisconnect>>

VARIABLES
  \* --- the evdev communication manager and its timed retry loop
  scan_pc,            \* "idle" (waiting for the timer), "read_dir", "for",
                      \* "panicked"
  dir_listed,         \* fs::read_dir succeeded in the last scan() called
  events_dir,         \* the directory entries the last scan() iterates over
  file_idx,           \* how many of them the for loop has gone through
  found,              \* DeviceFound events the last scan() sent upstream
  scan_result,        \* how the last scan() ended: "none", "Ok", "panic"
  sender_open         \* the upstream event channel still has its receiver

scanVars == <<scan_pc, dir_listed, events_dir, file_idx, found, scan_result,
              sender_open>>

VARIABLES
  \* --- a Lovense query: the identification handshake or a battery query
  q_op,               \* "none", "initialize", "battery"
  q_pc,               \* "idle", "subscribe", "write", "recv", "done",
                      \* "panicked"
  event_receiver,     \* the query's receiver, once subscribed: Some(the
                      \* notifications waiting in it)
  stream_open,        \* the notification stream still has its sender
  q_writes,           \* writes to Tx awaited by the query, each with whether
                      \* the subscription had completed
  q_consumed,         \* the notifications the query took from its receiver
  q_result            \* how the query resolved

queryVars == <<q_op, q_pc, event_receiver, stream_open, q_writes, q_consumed,
               q_result>>

VARIABLES
  \* --- the Evdev protocol handler and the writer's decoding
  sc_cmds,            \* the command set given to handle_scalar_cmd
  sc_result,          \* what handle_scalar_cmd returned
  sc_magnitude        \* the magnitude vibrate() read from the written data

encodeVars == <<sc_cmds, sc_result, sc_magnitude>>

VARIABLES
  \* --- commands handled concurrently on one Lovense device, and the toy
  t_pc,               \* per task: "ready", "update", "write", "load",
                      \* "store", "change", "done"
  t_msg,              \* per task: the command it handles
  t_plan,             \* per task: the writes it has still to await
  t_dir,              \* per task: the flag value it loaded
  t_result,           \* per task: "none", "Ok", "InvalidCommand", "WriteError"
  hw_speeds,          \* the toy: the speed last written for each motor
  hw_clockwise,       \* the toy: the direction its rotator turns in
  rotate_changes,     \* history: how many "RotateChange;" writes were issued
  flag_changes        \* history: how many times rotation_direction changed

taskVars == <<t_pc, t_msg, t_plan, t_dir, t_result, hw_speeds, hw_clockwise,
              rotate_changes, flag_changes>>

vars == <<lovenseVars, dongleVars, evdevVars, scanVars, queryVars, encodeVars,
          taskVars>>

\* ------------------------------------------------------------- Option<T>
None == <<>>
Some(v) == <<v>>
unwrap(o) == o[1]
is_some(o) == o # None

Speeds == 0..MaxSpeed

\* ------------------------------------------------ Generic Command Manager
\* A vibrate command: the speed asked of each addressed motor position.
\* Position motors + 1 is an index outside the configured count.
VibrateCmds(n) ==
  UNION {[S -> Speeds] : S \in SUBSET (1..n)} \cup {[p \in {n + 1} |-> 0]}

\* update_vibration(msg, false): the dedup delta and the stored values after
\* it.  err: the command addresses a motor the device does not have.
update_vibration(stored, msg) ==
  IF \E p \in DOMAIN msg : p > Len(stored)
  THEN [err |-> TRUE, result |-> None, stored |-> stored]
  ELSE LET changed == {p \in DOMAIN msg : msg[p] # stored[p]}
       IN  [err |-> FALSE,
            result |-> IF changed = {}
                       THEN None
                       ELSE Some([p \in 1..Len(stored) |->
                                    IF p \in changed THEN Some(msg[p]) ELSE None]),
            stored |-> [p \in 1..Len(stored) |->
                          IF p \in changed THEN msg[p] ELSE stored[p]]]

\* A rotate command for rotator 0.
RotateCmds == [speed : Speeds, clockwise : BOOLEAN]

\* update_rotation(msg): one entry per rotator; the compared and stored tuple
\* holds speed and direction.
update_rotation(stored, msg) ==
  LET new == <<msg.speed, msg.clockwise>>
  IN  [result |-> << IF new # stored THEN Some(new) ELSE None >>,
       stored |-> new]

\* ------------------------------------------------------- wire formatting
\* format!("Vibrate:{};", speed)
FmtVibrateAll(speed) == "Vibrate:" \o ToString(speed) \o ";"
\* format!("Vibrate{}:{};", i + 1, speed), i the code's index of position p
FmtVibrateOne(p, speed) ==
  "Vibrate" \o ToString((p - 1) + 1) \o ":" \o ToString(speed) \o ";"
\* format!("Rotate:{};", speed)
FmtRotate(speed) == "Rotate:" \o ToString(speed) \o ";"
RotateChange == "RotateChange;"

\* --------------------------------------------------- Lovense: vibration
\* cmds.windows(2).all(|w| w[0] == w[1])
windows_all_equal(cmds) == \A w \in 1..(Len(cmds) - 1) : cmds[w] = cmds[w + 1]

\* for (i, cmd) in cmds.iter().enumerate(): one write per present entry
RECURSIVE per_motor_writes(_, _)
per_motor_writes(cmds, p) ==
  IF p > Len(cmds) THEN <<>>
  ELSE (IF is_some(cmds[p]) THEN <<FmtVibrateOne(p, unwrap(cmds[p]))>> ELSE <<>>)
       \o per_motor_writes(cmds, p + 1)

\* Faulty variant: "all equal" evaluated over the present entries only.
vibrate_writes_present_only(result) ==
  IF ~is_some(result) THEN <<>>
  ELSE LET cmds == unwrap(result)
           present == {p \in 1..Len(cmds) : is_some(cmds[p])}
       IN  IF present # {} /\ \A p, q \in present : cmds[p] = cmds[q]
           THEN <<FmtVibrateAll(unwrap(cmds[CHOOSE p \in present : TRUE]))>>
           ELSE per_motor_writes(cmds, 1)

\* Faulty variant: the set-all branch is missing.
vibrate_writes_no_set_all(result) ==
  IF ~is_some(result) THEN <<>> ELSE per_motor_writes(unwrap(result), 1)

\* Faulty variant: the per-motor loop starts one entry late.
vibrate_writes_skip_first(result) ==
  IF ~is_some(result) THEN <<>>
  ELSE LET cmds == unwrap(result)
       IN  IF is_some(cmds[1]) /\ (Len(cmds) = 1 \/ windows_all_equal(cmds))
           THEN <<FmtVibrateAll(unwrap(cmds[1]))>>
           ELSE per_motor_writes(cmds, 2)

\* The writes handle_vibrate_cmd awaits, in order, for the manager's result.
vibrate_writes(result) ==
  IF ~is_some(result) THEN <<>>
  ELSE LET cmds == unwrap(result)
       IN  IF is_some(cmds[1]) /\ (Len(cmds) = 1 \/ windows_all_equal(cmds))
           THEN <<FmtVibrateAll(unwrap(cmds[1]))>>
           ELSE per_motor_writes(cmds, 1)

\* Faulty variant: every write is issued, whichever fails.
awaited_all(plan, failAt) == plan

\* Faulty variant: the write after the failing one is still issued.
awaited_one_more(plan, failAt) ==
  IF failAt \in 1..Len(plan)
  THEN SubSeq(plan, 1, IF failAt < Len(plan) THEN failAt + 1 ELSE failAt)
  ELSE plan

\* fut.await?: the writes awaited when write number failAt fails (0: none
\* fails), and the handler's result.
awaited(plan, failAt) ==
  IF failAt \in 1..Len(plan) THEN SubSeq(plan, 1, failAt) ELSE plan
resolved(plan, failAt) ==
  IF failAt \in 1..Len(plan) THEN "WriteError" ELSE "Ok"

\* (upd and plan are bound once: the manager is called once per command.)
handle_vibrate_cmd(msg, failAt) ==
  \E upd \in {update_vibration(vibrations, msg)} :
    \E plan \in {vibrate_writes(upd.result)} :
      /\ failAt \in 0..Len(plan)
      /\ lastOp' = "vibrate"
      /\ lastCmd' = msg
      /\ lastDelta' = upd.result
      /\ vibrations' = upd.stored
      /\ writes' = awaited(plan, failAt)
      /\ lastResult' = IF upd.err THEN "InvalidCommand" ELSE resolved(plan, failAt)
      /\ lastFailAt' = failAt
      /\ UNCHANGED <<motors, rotations, rotation_direction, speedWriteFailed>>

\* ----------------------------------------------------- Lovense: rotation
\* Faulty variant: the direction test is inverted.
direction_differs_inverted(dir, clockwise) == dir = clockwise

\* if dir != clockwise
direction_differs(dir, clockwise) == dir # clockwise

handle_rotate_cmd(msg, failAt) ==
  LET upd == update_rotation(rotations, msg)
      entry == upd.result[1]
      clockwise == unwrap(entry)[2]
      \* the flag is loaded once the speed write has succeeded
      toggles == is_some(entry) /\ direction_differs(rotation_direction, clockwise)
      plan == IF ~is_some(entry) THEN <<>>
              ELSE <<FmtRotate(unwrap(entry)[1])>>
                   \o (IF toggles THEN <<RotateChange>> ELSE <<>>)
  IN  /\ failAt \in 0..Len(plan)
      /\ lastOp' = "rotate"
      /\ lastCmd' = msg
      /\ lastDelta' = upd.result
      /\ rotations' = upd.stored
      \* the flag is stored after the speed write succeeded and before the
      \* RotateChange write is awaited
      /\ rotation_direction' =
           IF toggles /\ failAt # 1 THEN clockwise ELSE rotation_direction
      /\ writes' = awaited(plan, failAt)
      /\ lastResult' = resolved(plan, failAt)
      /\ speedWriteFailed' = (speedWriteFailed \/ failAt = 1)
      /\ lastFailAt' = failAt
      /\ UNCHANGED <<motors, vibrations>>

\* ------------------------------------ Lovense: commands handled concurrently
\* The tasks that handle one command each, on the same device.
Tasks == {"a", "b"}

\* What the toy does with a write that reaches it: "Vibrate:<n>;" sets every
\* motor to n, "Vibrate<k>:<n>;" sets motor k.
toy_vibrate(speeds, w) ==
  [p \in DOMAIN speeds |->
     IF \E n \in Speeds : w = FmtVibrateAll(n)
     THEN CHOOSE n \in Speeds : w = FmtVibrateAll(n)
     ELSE IF \E n \in Speeds : w = FmtVibrateOne(p, n)
     THEN CHOOSE n \in Speeds : w = FmtVibrateOne(p, n)
     ELSE speeds[p]]

\* What the toy does with a "RotateChange;" that reaches it: it reverses its
\* rotator.
toy_rotate_change(clockwise) == ~clockwise

\* A task is given a command: the handler's future is created.
task_call(t, msg) ==
  /\ t_pc[t] = "ready"
  /\ t_pc' = [t_pc EXCEPT ![t] = "update"]
  /\ t_msg' = [t_msg EXCEPT ![t] = msg]
  /\ UNCHANGED <<t_plan, t_dir, t_result, hw_speeds, hw_clockwise,
                 rotate_changes, flag_changes>>
  /\ UNCHANGED <<lovenseVars, dongleVars, evdevVars, scanVars, queryVars,
                 encodeVars>>

\* A task ends with a result.
task_done(t, result) ==
  /\ t_pc' = [t_pc EXCEPT ![t] = "done"]
  /\ t_result' = [t_result EXCEPT ![t] = result]

\* handle_vibrate_cmd up to its first write: the manager is updated under
\* its lock, the lock is dropped and the writes are built.
vibrate_update(t) ==
  /\ t_pc[t] = "update"
  /\ t_msg[t].kind = "vibrate"
  /\ \E upd \in {update_vibration(vibrations, t_msg[t].cmd)} :
       \E plan \in {vibrate_writes(upd.result)} :
         /\ vibrations' = upd.stored
         /\ t_plan' = [t_plan EXCEPT ![t] = plan]
         /\ IF upd.err THEN task_done(t, "InvalidCommand")
            ELSE IF plan = <<>> THEN task_done(t, "Ok")
            ELSE /\ t_pc' = [t_pc EXCEPT ![t] = "write"]
                 /\ UNCHANGED t_result
  /\ UNCHANGED <<t_msg, t_dir, hw_speeds, hw_clockwise, rotate_changes,
                 flag_changes>>
  /\ UNCHANGED <<motors, rotations, rotation_direction, lastOp, lastCmd,
                 lastDelta, writes, lastResult, speedWriteFailed, lastFailAt>>
  /\ UNCHANGED <<dongleVars, evdevVars, scanVars, queryVars, encodeVars>>

\* handle_rotate_cmd up to its first write.
rotate_update(t) ==
  /\ t_pc[t] = "update"
  /\ t_msg[t].kind = "rotate"
  /\ LET upd == update_rotation(rotations, t_msg[t].cmd)
         entry == upd.result[1]
     IN  /\ rotations' = upd.stored
         /\ IF is_some(entry)
            THEN /\ t_plan' = [t_plan EXCEPT ![t] = <<FmtRotate(unwrap(entry)[1])>>]
                 /\ t_pc' = [t_pc EXCEPT ![t] = "write"]
                 /\ UNCHANGED t_result
            ELSE /\ task_done(t, "Ok")
                 /\ UNCHANGED t_plan
  /\ UNCHANGED <<t_msg, t_dir, hw_speeds, hw_clockwise, rotate_changes,
                 flag_changes>>
  /\ UNCHANGED <<motors, vibrations, rotation_direction, lastOp, lastCmd,
                 lastDelta, writes, lastResult, speedWriteFailed, lastFailAt>>
  /\ UNCHANGED <<dongleVars, evdevVars, scanVars, queryVars, encodeVars>>

\* fut.await?: the next write of the task is awaited; it reaches the toy, or
\* fails and ends the handler.
task_write(t, ok) ==
  /\ t_pc[t] = "write"
  /\ LET w == Head(t_plan[t])
         rest == Tail(t_plan[t])
     IN  IF ok
         THEN /\ hw_speeds' = toy_vibrate(hw_speeds, w)
              /\ t_plan' = [t_plan EXCEPT ![t] = rest]
              /\ IF rest # <<>>
                 THEN UNCHANGED <<t_pc, t_result>>
                 ELSE IF t_msg[t].kind = "rotate"
                 THEN /\ t_pc' = [t_pc EXCEPT ![t] = "load"]
                      /\ UNCHANGED t_result
                 ELSE task_done(t, "Ok")
         ELSE /\ task_done(t, "WriteError")
              /\ UNCHANGED <<hw_speeds, t_plan>>
  /\ UNCHANGED <<t_msg, t_dir, hw_clockwise, rotate_changes, flag_changes>>
  /\ UNCHANGED <<lovenseVars, dongleVars, evdevVars, scanVars, queryVars,
                 encodeVars>>

\* let dir = direction.load(Ordering::SeqCst); if dir != clockwise
rotate_load(t) ==
  /\ t_pc[t] = "load"
  /\ t_dir' = [t_dir EXCEPT ![t] = rotation_direction]
  /\ IF direction_differs(rotation_direction, t_msg[t].cmd.clockwise)
     THEN /\ t_pc' = [t_pc EXCEPT ![t] = "store"]
          /\ UNCHANGED t_result
     ELSE task_done(t, "Ok")
  /\ UNCHANGED <<t_msg, t_plan, hw_speeds, hw_clockwise, rotate_changes,
                 flag_changes>>
  /\ UNCHANGED <<lovenseVars, dongleVars, evdevVars, scanVars, queryVars,
                 encodeVars>>

\* direction.store(clockwise, Ordering::SeqCst)
rotate_store(t) ==
  /\ t_pc[t] = "store"
  /\ rotation_direction' = t_msg[t].cmd.clockwise
  /\ flag_changes' = IF rotation_direction # t_msg[t].cmd.clockwise
                     THEN flag_changes + 1 ELSE flag_changes
  /\ t_pc' = [t_pc EXCEPT ![t] = "change"]
  /\ UNCHANGED <<t_msg, t_plan, t_dir, t_result, hw_speeds, hw_clockwise,
                 rotate_changes>>
  /\ UNCHANGED <<motors, vibrations, rotations, lastOp, lastCmd, lastDelta,
                 writes, lastResult, speedWriteFailed, lastFailAt>>
  /\ UNCHANGED <<dongleVars, evdevVars, scanVars, queryVars, encodeVars>>

\* The "RotateChange;" write is awaited: the toy reverses its rotator, or
\* the write fails.
rotate_change(t, ok) ==
  /\ t_pc[t] = "change"
  /\ rotate_changes' = rotate_changes + 1
  /\ hw_clockwise' = IF ok THEN toy_rotate_change(hw_clockwise)
                              ELSE hw_clockwise
  /\ task_done(t, IF ok THEN "Ok" ELSE "WriteError")
  /\ UNCHANGED <<t_msg, t_plan, t_dir, hw_speeds, flag_changes>>
  /\ UNCHANGED <<lovenseVars, dongleVars, evdevVars, scanVars, queryVars,
                 encodeVars>>

\* ------------------------------------------- the relayed toy (dongle) handle
\* The address the handle was created with.
Address == "toy1"
\* Text a toy sends back.
Payloads == {"85;", "OK;"}
\* Incoming relay messages {func, data: Option<{id, data: Option<String>}>}.
\* A message tagged ToyData carries a payload.
ToyDataMsgs ==
  {[func |-> "ToyData", data |-> Some([id |-> Some(Address), data |-> Some(t)])] :
     t \in Payloads}
StatusMsgs ==
  {[func |-> "Status", data |-> None],
   [func |-> "Status", data |-> Some([id |-> Some(Address), data |-> Some("85;")])]}
IncomingMsgs == ToyDataMsgs \cup StatusMsgs
\* The data of the write commands a protocol hands to the handle.
WriteData == {"Vibrate:1;"}

\* ButtplugDeviceEvent::Notification(address, Endpoint::Rx, bytes) and
\* ButtplugDeviceEvent::Removed(address)
Notification(address, endpoint, data) == <<"Notification", address, endpoint, data>>
Removed(address) == <<"Removed", address>>

\* Faulty variant: every message that carries text is forwarded.
is_toy_data_any(msg) == is_some(msg.data) /\ is_some(unwrap(msg.data).data)

\* msg.func != LovenseDongleMessageFunc::ToyData: continue
is_toy_data(msg) == msg.func = "ToyData"

\* Faulty variant: an empty channel is taken for a closed one.
recv_none_when_empty(queue, open) == queue = <<>>

\* device_incoming.recv() yields None: the channel is empty and its sender
\* is gone.
recv_none(queue, open) == queue = <<>> /\ ~open

\* The body of the listener's loop, for the message at the head of the
\* channel.
listener_forward ==
  /\ listener = "running"
  /\ device_incoming # <<>>
  /\ LET msg == Head(device_incoming)
     IN  /\ device_incoming' = Tail(device_incoming)
         /\ events' = IF ~is_toy_data(msg)
                      THEN events
                      ELSE Append(events,
                             Notification(Address, "Rx", unwrap(unwrap(msg.data).data)))
  /\ UNCHANGED <<lovenseVars, scanVars, queryVars, encodeVars, evdevVars,
                 lastDisconnect, connected, incoming_open, arrived, listener,
                 device_outgoing, outgoing_open, lastWrite, writeTick,
                 taskVars>>

\* The loop has ended: Removed is sent and the task finishes.
listener_removed ==
  /\ listener = "running"
  /\ recv_none(device_incoming, incoming_open)
  /\ events' = Append(events, Removed(Address))
  /\ listener' = "done"
  /\ UNCHANGED <<lovenseVars, scanVars, queryVars, encodeVars, evdevVars,
                 lastDisconnect, connected, device_incoming, incoming_open,
                 arrived, device_outgoing, outgoing_open, lastWrite,
                 writeTick, taskVars>>

listener_task == listener_forward \/ listener_removed

\* Faulty variant: the flag is flipped instead of cleared.
store_negated(flag) == ~flag

\* connected.store(false, Ordering::SeqCst)
store_false(flag) == FALSE

\* disconnect(): the flag is cleared and the call resolves Ok(()).  seen: how
\* many messages the relay had sent so far (history).
disconnect ==
  /\ connected' = store_false(connected)
  /\ lastDisconnect' = [result |-> "Ok", tick |-> ~lastDisconnect.tick,
                        seen |-> Len(arrived)]
  /\ UNCHANGED <<lovenseVars, scanVars, queryVars, encodeVars, evdevVars,
                 device_incoming, incoming_open, arrived, listener, events,
                 device_outgoing, outgoing_open, lastWrite, writeTick,
                 taskVars>>

\* The message write_value builds for the data of a write command.
outgoing_msg(address, data) ==
  [func |-> "Command", message_type |-> "Toy", id |-> Some(address),
   command |-> Some(data), eager |-> None]

\* Faulty variant: the error of a failed send is dropped.
send_result_swallowed(open) == "Ok"

\* port_sender.send(..).await.map_err(..): a send on a channel whose
\* receiver is gone fails, and the failure becomes DeviceNotConnected.
send_result(open) == IF open THEN "Ok" ELSE "NotConnected"

\* write_value(msg).  A send on a full channel waits for room.
write_value(data) ==
  /\ outgoing_open => Len(device_outgoing) < MaxOutgoing
  /\ device_outgoing' = IF outgoing_open
                        THEN Append(device_outgoing, outgoing_msg(Address, data))
                        ELSE device_outgoing
  /\ lastWrite' = [data |-> data, connected |-> connected, open |-> outgoing_open,
                   sent |-> IF outgoing_open
                            THEN Some(outgoing_msg(Address, data)) ELSE None,
                   result |-> send_result(outgoing_open)]
  /\ writeTick' = ~writeTick
  /\ UNCHANGED <<lovenseVars, scanVars, queryVars, encodeVars, evdevVars,
                 lastDisconnect, connected, device_incoming, incoming_open,
                 arrived, listener, events, outgoing_open, taskVars>>

\* The relay sends a message to the toy's listener.
relay_send(msg) ==
  /\ incoming_open
  /\ Len(arrived) < MaxIncoming
  /\ device_incoming' = Append(device_incoming, msg)
  /\ arrived' = Append(arrived, msg)
  /\ UNCHANGED <<lovenseVars, scanVars, queryVars, encodeVars, evdevVars,
                 lastDisconnect, connected, incoming_open, listener, events,
                 device_outgoing, outgoing_open, lastWrite, writeTick,
                 taskVars>>

\* The relay drops the sender of the toy's incoming channel.
relay_close_incoming ==
  /\ incoming_open
  /\ incoming_open' = FALSE
  /\ UNCHANGED <<lovenseVars, scanVars, queryVars, encodeVars, evdevVars,
                 lastDisconnect, connected, device_incoming, arrived,
                 listener, events, device_outgoing, outgoing_open, lastWrite,
                 writeTick, taskVars>>

\* The relay takes a message from the shared outgoing channel.
relay_take_outgoing ==
  /\ outgoing_open
  /\ device_outgoing # <<>>
  /\ device_outgoing' = Tail(device_outgoing)
  /\ UNCHANGED <<lovenseVars, scanVars, queryVars, encodeVars, evdevVars,
                 lastDisconnect, connected, device_incoming, incoming_open,
                 arrived, listener, events, outgoing_open, lastWrite,
                 writeTick, taskVars>>

\* The relay drops the receiver of the outgoing channel, with what it holds.
relay_close_outgoing ==
  /\ outgoing_open
  /\ outgoing_open' = FALSE
  /\ device_outgoing' = <<>>
  /\ UNCHANGED <<lovenseVars, scanVars, queryVars, encodeVars, evdevVars,
                 lastDisconnect, connected, device_incoming, incoming_open,
                 arrived, listener, events, lastWrite, writeTick, taskVars>>

\* ------------------------------------------------- the evdev hardware handle
\* The data of the write commands handed to the handle: two bytes.
EvdevWriteData == {<<0, 0>>, <<52, 18>>}

\* cursor.read_u16::<LittleEndian>()
read_u16_le(bytes) == bytes[1] + 256 * bytes[2]

\* disconnect(): the flag is cleared and the call resolves Ok(()).
evdev_disconnect ==
  /\ ev_connected' = store_false(ev_connected)
  /\ lastEvDisconnect' = [result |-> "Ok", tick |-> ~lastEvDisconnect.tick]
  /\ UNCHANGED <<lovenseVars, scanVars, queryVars, encodeVars, dongleVars,
                 write_queue, writer, effect_nodrop, lastEvWrite, taskVars>>

\* write_value(msg): the data is sent to the writer thread; the send fails
\* when the thread has exited, and expect() then panics in the caller.  A
\* send on a full queue waits for room.
evdev_write_value(data) ==
  /\ writer = "running" => Len(write_queue) < MaxWriteQueue
  /\ write_queue' = IF writer = "running" THEN Append(write_queue, data)
                    ELSE write_queue
  /\ lastEvWrite' = [connected |-> ev_connected,
                     queued |-> writer = "running",
                     result |-> IF writer = "running" THEN "Ok" ELSE "panic"]
  /\ UNCHANGED <<lovenseVars, scanVars, queryVars, encodeVars, dongleVars,
                 lastEvDisconnect, ev_connected, writer, effect_nodrop,
                 taskVars>>

\* One turn of the writer thread's loop: the effect is uploaded and played,
\* or the upload fails and the thread returns, dropping its receiver and the
\* effect it held.
write_thread(uploaded) ==
  /\ writer = "running"
  /\ write_queue # <<>>
  /\ IF uploaded
     THEN /\ effect_nodrop' = Some(read_u16_le(Head(write_queue)))
          /\ write_queue' = Tail(write_queue)
          /\ writer' = writer
     ELSE /\ effect_nodrop' = None
          /\ write_queue' = <<>>
          /\ writer' = "exited"
  /\ UNCHANGED <<lovenseVars, scanVars, queryVars, encodeVars, dongleVars,
                 lastEvDisconnect, ev_connected, lastEvWrite, taskVars>>

\* ------------------------------------ Lovense: handshake and battery query
\* Text is a sequence of characters (here: of ASCII characters, as the
\* Lovense wire protocol has it).
DeviceTypeQuery == <<"D", "e", "v", "i", "c", "e", "T", "y", "p", "e", ";">>
BatteryQuery == <<"B", "a", "t", "t", "e", "r", "y", ";">>
\* What a toy may notify: battery levels, a device type, an acknowledgement,
\* a number that is no u8, and an empty notification.
Responses ==
  {<<"8", "5", ";">>, <<"1", "0", "0", ";">>, <<"C", ":", "1", "1", ":", "A", ";">>,
   <<"O", "K", ";">>, <<"3", "0", "0", ";">>, <<>>}

\* Faulty variant: the token after the last delimiter.
split_last(str, delim) ==
  LET at == {i \in 1..Len(str) : str[i] = delim}
  IN  IF at = {} THEN str
      ELSE SubSeq(str, (CHOOSE i \in at : \A j \in at : j <= i) + 1, Len(str))

\* type_response.split(':').collect::<Vec<&str>>()[0]
split_first(str, delim) ==
  LET at == {i \in 1..Len(str) : str[i] = delim}
  IN  IF at = {} THEN str
      ELSE SubSeq(str, 1, (CHOOSE i \in at : \A j \in at : i <= j) - 1)

Digits == {"0", "1", "2", "3", "4", "5", "6", "7", "8", "9"}
digit_value(c) == CHOOSE d \in 0..9 : ToString(d) = c
RECURSIVE decimal(_)
decimal(str) ==
  IF str = <<>> THEN 0
  ELSE 10 * decimal(SubSeq(str, 1, Len(str) - 1)) + digit_value(str[Len(str)])

\* data_str[0..(len - 1)]
chop_last(str) == SubSeq(str, 1, Len(str) - 1)

\* str::parse::<u8>(): an optional '+', then digits, the value at most 255
parse_u8(str) ==
  LET body == IF str # <<>> /\ str[1] = "+" THEN Tail(str) ELSE str
  IN  IF body # <<>> /\ (\A i \in 1..Len(body) : body[i] \in Digits)
         /\ decimal(body) <= 255
      THEN Some(decimal(body))
      ELSE None

\* BatteryLevelReading::new(device_index, level as f64 / 100f64): the
\* reading is kept as the fraction level / 100.
BatteryLevelReading(level) == [kind |-> "BatteryLevelReading", num |-> level, den |-> 100]
ErrorResult(err) == [kind |-> "Err", err |-> err]
\* Ok(Some(identifier))
Identifier(token) == [kind |-> "Identifier", token |-> token]

\* A query is called: initialize() on a new device, or
\* handle_battery_level_cmd.
query_call(op) ==
  /\ q_pc \in {"idle", "done"}
  /\ q_op' = op
  /\ q_pc' = "subscribe"
  /\ event_receiver' = None
  /\ q_writes' = <<>>
  /\ q_consumed' = <<>>
  /\ q_result' = [kind |-> "none"]
  /\ UNCHANGED stream_open
  /\ UNCHANGED <<lovenseVars, dongleVars, evdevVars, scanVars, encodeVars,
                 taskVars>>

\* subscribe_fut.await?
query_subscribe(ok) ==
  /\ q_pc = "subscribe"
  /\ IF ok
     THEN /\ q_pc' = "write"
          /\ event_receiver' = Some(<<>>)
          /\ UNCHANGED q_result
     ELSE /\ q_pc' = "done"
          /\ q_result' = ErrorResult("SubscribeError")
          /\ UNCHANGED event_receiver
  /\ UNCHANGED <<q_op, stream_open, q_writes, q_consumed>>
  /\ UNCHANGED <<lovenseVars, dongleVars, evdevVars, scanVars, encodeVars,
                 taskVars>>

\* info_fut.await? / write_fut.await?
query_write(ok) ==
  /\ q_pc = "write"
  /\ q_writes' = Append(q_writes,
                    [endpoint |-> "Tx",
                     data |-> IF q_op = "initialize" THEN DeviceTypeQuery
                              ELSE BatteryQuery,
                     subscribed |-> is_some(event_receiver)])
  /\ IF ok
     THEN q_pc' = "recv" /\ UNCHANGED q_result
     ELSE q_pc' = "done" /\ q_result' = ErrorResult("WriteError")
  /\ UNCHANGED <<q_op, event_receiver, stream_open, q_consumed>>
  /\ UNCHANGED <<lovenseVars, dongleVars, evdevVars, scanVars, encodeVars,
                 taskVars>>

\* What initialize makes of the notification it received.
initialize_result(data) == Identifier(split_first(data, ":"))

\* What handle_battery_level_cmd makes of the notification it received;
\* "panic": the slice data_str[0..(len - 1)] of an empty string.
battery_result(data) ==
  IF Len(data) = 0 THEN [kind |-> "panic"]
  ELSE IF is_some(parse_u8(chop_last(data)))
       THEN BatteryLevelReading(unwrap(parse_u8(chop_last(data))))
       ELSE ErrorResult("DeviceNotConnected")

\* event_receiver.recv().await yields Ok(data).
query_recv_data ==
  /\ q_pc = "recv"
  /\ unwrap(event_receiver) # <<>>
  /\ LET data == Head(unwrap(event_receiver))
         res == IF q_op = "initialize" THEN initialize_result(data)
                ELSE battery_result(data)
     IN  /\ q_consumed' = Append(q_consumed, data)
         /\ event_receiver' = Some(Tail(unwrap(event_receiver)))
         /\ q_result' = res
         /\ q_pc' = IF res.kind = "panic" THEN "panicked" ELSE "done"
  /\ UNCHANGED <<q_op, stream_open, q_writes>>
  /\ UNCHANGED <<lovenseVars, dongleVars, evdevVars, scanVars, encodeVars,
                 taskVars>>

\* event_receiver.recv().await yields Err: nothing waits and the sender is
\* gone.
query_recv_closed ==
  /\ q_pc = "recv"
  /\ unwrap(event_receiver) = <<>>
  /\ ~stream_open
  /\ q_result' = IF q_op = "initialize"
                  THEN ErrorResult("DeviceConnectionError")
                  ELSE ErrorResult("DeviceNotConnected")
  /\ q_pc' = "done"
  /\ UNCHANGED <<q_op, event_receiver, stream_open, q_writes, q_consumed>>
  /\ UNCHANGED <<lovenseVars, dongleVars, evdevVars, scanVars, encodeVars,
                 taskVars>>

query_task ==
  \/ \E ok \in BOOLEAN : query_subscribe(ok)
  \/ \E ok \in BOOLEAN : query_write(ok)
  \/ query_recv_data
  \/ query_recv_closed

\* The toy notifies: the notification reaches the receiver of a completed
\* subscription.
device_notify(data) ==
  /\ stream_open
  /\ is_some(event_receiver)
  /\ q_pc \in {"write", "recv"}
  /\ Len(unwrap(event_receiver)) < MaxPending
  /\ event_receiver' = Some(Append(unwrap(event_receiver), data))
  /\ UNCHANGED <<q_op, q_pc, stream_open, q_writes, q_consumed, q_result>>
  /\ UNCHANGED <<lovenseVars, dongleVars, evdevVars, scanVars, encodeVars,
                 taskVars>>

\* The device disconnects: the notification stream loses its sender.
stream_close ==
  /\ stream_open
  /\ stream_open' = FALSE
  /\ UNCHANGED <<q_op, q_pc, event_receiver, q_writes, q_consumed, q_result>>
  /\ UNCHANGED <<lovenseVars, dongleVars, evdevVars, scanVars, encodeVars,
                 taskVars>>

\* ------------------------------------------- the Evdev protocol handler
\* Faulty variant: a conversion that saturates at i16::MAX.
as_i16_saturating(v) == IF v > 32767 THEN 32767 ELSE v

\* `v as i16` for a u32: the low 16 bits, read as two's complement
as_i16(v) == (((v % 65536) + 32768) % 65536) - 32768

\* write_i16::<LittleEndian>: the two bytes of the two's complement, low
\* byte first
write_i16_le(x) == <<(x % 65536) % 256, (x % 65536) \div 256>>

\* HardwareWriteCmd::new(endpoint, data, write_with_response)
HardwareWriteCmd(endpoint, data, write_with_response) ==
  [endpoint |-> endpoint, data |-> data,
   write_with_response |-> write_with_response]

\* handle_scalar_cmd(cmds); an entry is Some(<<actuator type, value>>).
\* "panic": cmds[0] does not exist or expect(":3") meets None.
handle_scalar_cmd(cmds) ==
  IF Len(cmds) = 0 \/ ~is_some(cmds[1])
  THEN [kind |-> "panic", commands |-> <<>>]
  ELSE [kind |-> "Ok",
        commands |->
          <<HardwareWriteCmd("Tx", write_i16_le(as_i16(unwrap(cmds[1])[2])), FALSE)>>]

\* The values of entry 0 of a command set with one entry: every u16 and two
\* larger values.
ScalarValues == (0..U16_MAX) \cup {U16_MAX + 1, 100000}
\* The entries of the larger command sets.
ScalarEntries == {None} \cup {Some(<<"Vibrate", v>>) : v \in {0, 1, U16_MAX}}
ScalarCmdSets ==
  {<<>>} \cup {<<Some(<<"Vibrate", v>>)>> : v \in ScalarValues}
  \cup UNION {[1..n -> ScalarEntries] : n \in 1..MaxActuators}

\* The handler is given the command set.
scalar_cmd ==
  /\ sc_result.kind = "none"
  /\ sc_result' = handle_scalar_cmd(sc_cmds)
  /\ UNCHANGED <<sc_cmds, sc_magnitude>>
  /\ UNCHANGED <<lovenseVars, dongleVars, evdevVars, scanVars, queryVars,
                 taskVars>>

\* vibrate(): the writer reads the magnitude from the data of the write
\* command.
vibrate ==
  /\ sc_result.kind = "Ok"
  /\ sc_magnitude = None
  /\ sc_magnitude' = Some(read_u16_le(sc_result.commands[1].data))
  /\ UNCHANGED <<sc_cmds, sc_result>>
  /\ UNCHANGED <<lovenseVars, dongleVars, evdevVars, scanVars, queryVars,
                 taskVars>>

\* ------------------------------------- the evdev communication manager
\* File names are sequences of characters; "0xFF" stands for a byte that is
\* not valid UTF-8.
EventName == <<"e", "v", "e", "n", "t", "3">>
MouseName == <<"m", "o", "u", "s", "e", "0">>
NonUtf8Name == <<"e", "v", "e", "n", "t", "0xFF">>
FileNames == {EventName, MouseName, NonUtf8Name}

\* One item of the read_dir iterator: whether it is Ok(entry), the entry's
\* file name, whether evdev::Device::open succeeds on its path and whether
\* the opened device reports force feedback.  An item that is an error has
\* no name, a path that is not opened no device: what does not exist is
\* fixed (MouseName, FALSE).
DirEntries ==
  {e \in [enumerated : BOOLEAN, file_name : FileNames, opens : BOOLEAN,
          supported_ff : BOOLEAN] :
     /\ ~e.enumerated => e.file_name = MouseName
     /\ (~e.enumerated \/ e.file_name # EventName) => ~e.opens
     /\ ~e.opens => ~e.supported_ff}

RECURSIVE SeqsUpTo(_, _)
SeqsUpTo(S, n) ==
  IF n = 0 THEN {<<>>}
  ELSE LET shorter == SeqsUpTo(S, n - 1)
       IN  shorter \cup {Append(q, x) : q \in shorter, x \in S}

\* The directory listings a scan may meet.
Listings == SeqsUpTo(DirEntries, MaxCandidates)

\* OsStr::to_str: None unless the name is valid Unicode
to_str(name) ==
  IF \E i \in 1..Len(name) : name[i] = "0xFF" THEN None ELSE Some(name)

\* str::starts_with
starts_with(str, prefix) ==
  Len(str) >= Len(prefix) /\ SubSeq(str, 1, Len(prefix)) = prefix

\* HardwareCommunicationManagerEvent::DeviceFound for the device opened from
\* entry number idx of the listing
DeviceFound(idx) == <<"DeviceFound", idx>>

\* The timed retry loop calls scan() at a timer tick.
retry_tick ==
  /\ scan_pc = "idle"
  /\ scan_pc' = "read_dir"
  /\ UNCHANGED <<dir_listed, events_dir, file_idx, found, scan_result,
                 sender_open>>
  /\ UNCHANGED <<lovenseVars, dongleVars, evdevVars, queryVars, encodeVars,
                 taskVars>>

\* fs::read_dir("/dev/input/").expect("owo?"): the listing, or a panic in
\* the task that called scan().
read_dir(listing) ==
  /\ scan_pc = "read_dir"
  /\ found' = <<>>
  /\ file_idx' = 0
  /\ IF is_some(listing)
     THEN /\ dir_listed' = TRUE
          /\ events_dir' = unwrap(listing)
          /\ scan_pc' = "for"
          /\ scan_result' = "none"
     ELSE /\ dir_listed' = FALSE
          /\ events_dir' = <<>>
          /\ scan_pc' = "panicked"
          /\ scan_result' = "panic"
  /\ UNCHANGED sender_open
  /\ UNCHANGED <<lovenseVars, dongleVars, evdevVars, queryVars, encodeVars,
                 taskVars>>

\* One turn of `for file in events_dir`.
scan_entry ==
  /\ scan_pc = "for"
  /\ file_idx < Len(events_dir)
  /\ LET idx == file_idx + 1
         file == events_dir[idx]
     IN  /\ file_idx' = idx
         /\ IF ~file.enumerated
            THEN \* file.is_err(): continue
                 UNCHANGED <<scan_pc, found, scan_result>>
            ELSE IF ~is_some(to_str(file.file_name))
            THEN \* to_str().expect(":<") panics
                 /\ scan_pc' = "panicked"
                 /\ scan_result' = "panic"
                 /\ UNCHANGED found
            ELSE IF ~starts_with(unwrap(to_str(file.file_name)),
                                 <<"e", "v", "e", "n", "t">>)
            THEN UNCHANGED <<scan_pc, found, scan_result>>
            ELSE IF ~file.opens
            THEN UNCHANGED <<scan_pc, found, scan_result>>
            ELSE IF ~file.supported_ff
            THEN UNCHANGED <<scan_pc, found, scan_result>>
            ELSE IF sender_open
            THEN /\ found' = Append(found, DeviceFound(idx))
                 /\ UNCHANGED <<scan_pc, scan_result>>
            ELSE \* the send failed: return Ok(())
                 /\ scan_pc' = "idle"
                 /\ scan_result' = "Ok"
                 /\ UNCHANGED found
  /\ UNCHANGED <<dir_listed, events_dir, sender_open>>
  /\ UNCHANGED <<lovenseVars, dongleVars, evdevVars, queryVars, encodeVars,
                 taskVars>>

\* The loop is over: Ok(()), and the retry loop waits for its next tick.
scan_return ==
  /\ scan_pc = "for"
  /\ file_idx = Len(events_dir)
  /\ scan_pc' = "idle"
  /\ scan_result' = "Ok"
  /\ UNCHANGED <<dir_listed, events_dir, file_idx, found, sender_open>>
  /\ UNCHANGED <<lovenseVars, dongleVars, evdevVars, queryVars, encodeVars,
                 taskVars>>

\* The device manager drops the receiver of the event channel.
sender_close ==
  /\ sender_open
  /\ sender_open' = FALSE
  /\ UNCHANGED <<scan_pc, dir_listed, events_dir, file_idx, found, scan_result>>
  /\ UNCHANGED <<lovenseVars, dongleVars, evdevVars, queryVars, encodeVars,
                 taskVars>>

\* ------------------------------------------------------- specification
\* new_protocol: a fresh manager and rotation_direction = false.
LovenseInit ==
  /\ vibrations = [p \in 1..motors |-> 0]
  /\ rotations = <<0, FALSE>>
  /\ rotation_direction = FALSE
  /\ lastOp = "none"
  /\ lastCmd = None
  /\ lastDelta = None
  /\ writes = <<>>
  /\ lastResult = "none"
  /\ speedWriteFailed = FALSE
  /\ lastFailAt = 0

\* LovenseDongleDeviceImpl::new: the listener is spawned, connected = true.
DongleHandleInit ==
  /\ connected = TRUE
  /\ device_incoming = <<>>
  /\ incoming_open = TRUE
  /\ arrived = <<>>
  /\ listener = "running"
  /\ events = <<>>
  /\ device_outgoing = <<>>
  /\ outgoing_open = TRUE
  /\ lastWrite = [data |-> "", connected |-> TRUE, open |-> TRUE, sent |-> None,
                  result |-> "none"]
  /\ writeTick = FALSE
  /\ lastDisconnect = [result |-> "none", tick |-> FALSE, seen |-> 0]

\* EvdevDeviceImpl::new: the writer thread is spawned, connected = true.
EvdevHandleInit ==
  /\ ev_connected = TRUE
  /\ write_queue = <<>>
  /\ writer = "running"
  /\ effect_nodrop = None
  /\ lastEvWrite = [connected |-> TRUE, queued |-> FALSE, result |-> "none"]
  /\ lastEvDisconnect = [result |-> "none", tick |-> FALSE]

\* EvdevCommunicationManager::new inside a timed retry manager: no scan has
\* been called yet.
ScanManagerInit ==
  /\ scan_pc = "idle"
  /\ dir_listed = FALSE
  /\ events_dir = <<>>
  /\ file_idx = 0
  /\ found = <<>>
  /\ scan_result = "none"
  /\ sender_open = TRUE

\* No query has been called on the device yet.
QueryInit ==
  /\ q_op = "none"
  /\ q_pc = "idle"
  /\ event_receiver = None
  /\ stream_open = TRUE
  /\ q_writes = <<>>
  /\ q_consumed = <<>>
  /\ q_result = [kind |-> "none"]

\* No scalar command has been handled yet.
EncodeIdle ==
  /\ sc_result = [kind |-> "none", commands |-> <<>>]
  /\ sc_magnitude = None

\* No task has been given a command; the toy is as new_protocol takes it to
\* be: motors stopped, rotator counter-clockwise.
TasksInit ==
  /\ t_pc = [t \in Tasks |-> "ready"]
  /\ t_msg = [t \in Tasks |-> [kind |-> "none"]]
  /\ t_plan = [t \in Tasks |-> <<>>]
  /\ t_dir = [t \in Tasks |-> FALSE]
  /\ t_result = [t \in Tasks |-> "none"]
  /\ hw_speeds = [p \in 1..motors |-> 0]
  /\ hw_clockwise = FALSE
  /\ rotate_changes = 0
  /\ flag_changes = 0

Init ==
  /\ sc_cmds = <<>>
  /\ EncodeIdle
  /\ motors \in 1..MaxMotors
  /\ LovenseInit
  /\ DongleHandleInit
  /\ EvdevHandleInit
  /\ ScanManagerInit
  /\ QueryInit
  /\ TasksInit

VibrateStep == /\ \E msg \in VibrateCmds(motors), failAt \in 0..motors :
                    handle_vibrate_cmd(msg, failAt)
               /\ UNCHANGED <<dongleVars, evdevVars, scanVars, queryVars,
                              encodeVars, taskVars>>
RotateStep == /\ \E msg \in RotateCmds, failAt \in 0..2 :
                   handle_rotate_cmd(msg, failAt)
              /\ UNCHANGED <<dongleVars, evdevVars, scanVars, queryVars,
                             encodeVars, taskVars>>

\* Vibrate commands handled one after another on one device.
Next == VibrateStep

Spec == Init /\ [][Next]_vars

\* A device with one vibration motor and a rotator: vibrate and rotate
\* commands handled one after another.
RotateInit == Init /\ motors = 1
RotateNext == RotateStep \/ VibrateStep
RotateSpec == RotateInit /\ [][RotateNext]_vars

\* One relayed toy: its listener, its handle and the relay at the other end
\* of its channels.
DongleInit == Init /\ motors = 1
DongleNext ==
  \/ listener_forward
  \/ listener_removed
  \/ disconnect
  \/ \E data \in WriteData : write_value(data)
  \/ \E msg \in IncomingMsgs : relay_send(msg)
  \/ relay_close_incoming
  \/ relay_take_outgoing
  \/ relay_close_outgoing
DongleSpec == DongleInit /\ [][DongleNext]_vars
\* The runtime keeps polling the spawned listener task.
DongleFairSpec == DongleSpec /\ WF_vars(listener_task)

\* The write paths of the two hardware handles: a relayed toy's handle with
\* the relay at the other end of the outgoing channel, and an evdev handle
\* with its writer thread.
HandlesInit == Init /\ motors = 1
HandlesNext ==
  \/ disconnect
  \/ \E data \in WriteData : write_value(data)
  \/ relay_take_outgoing
  \/ relay_close_outgoing
  \/ evdev_disconnect
  \/ \E data \in EvdevWriteData : evdev_write_value(data)
  \/ \E uploaded \in BOOLEAN : write_thread(uploaded)
HandlesSpec == HandlesInit /\ [][HandlesNext]_vars

\* The life of the two handles: a relayed toy with its listener and relay,
\* and an evdev handle with its writer thread, each disconnected any number
\* of times at any moment.
LifecycleInit == Init /\ motors = 1
\* What the relay sends here: a toy's answer and a status message; and the
\* data written to the evdev handle.
LifecycleMsgs ==
  {m \in IncomingMsgs :
     m.data = None \/ (m.func = "ToyData" /\ m.data[1].data = Some("85;"))}
LifecycleWriteData == {d \in EvdevWriteData : read_u16_le(d) # 0}
LifecycleNext ==
  \/ listener_forward
  \/ listener_removed
  \/ disconnect
  \/ \E msg \in LifecycleMsgs : relay_send(msg)
  \/ relay_close_incoming
  \/ relay_close_outgoing
  \/ evdev_disconnect
  \/ \E data \in LifecycleWriteData : evdev_write_value(data)
  \/ \E uploaded \in BOOLEAN : write_thread(uploaded)
LifecycleSpec == LifecycleInit /\ [][LifecycleNext]_vars

\* Device discovery on evdev: scans called one after another by the timed
\* retry loop, over any directory listing.
ScanInit == Init /\ motors = 1
ScanNext ==
  \/ retry_tick
  \/ \E listing \in {None} \cup {Some(l) : l \in Listings} : read_dir(listing)
  \/ scan_entry
  \/ scan_return
  \/ sender_close
ScanSpec == ScanInit /\ [][ScanNext]_vars

\* Queries on one Lovense device, one after another: the handshake and
\* battery queries, with the toy notifying and disconnecting at any moment.
QuerySpecInit == Init /\ motors = 1
QueryNext ==
  \/ \E op \in {"initialize", "battery"} : query_call(op)
  \/ \E ok \in BOOLEAN : query_subscribe(ok)
  \/ \E ok \in BOOLEAN : query_write(ok)
  \/ query_recv_data
  \/ query_recv_closed
  \/ \E data \in Responses : device_notify(data)
  \/ stream_close
QuerySpec == QuerySpecInit /\ [][QueryNext]_vars

\* Two vibrate commands handled concurrently on one device.
ConcVibrateInit == Init
ConcVibrateNext ==
  \/ \E t \in Tasks, msg \in VibrateCmds(motors) :
       task_call(t, [kind |-> "vibrate", cmd |-> msg])
  \/ \E t \in Tasks : vibrate_update(t)
  \/ \E t \in Tasks, ok \in BOOLEAN : task_write(t, ok)
ConcVibrateSpec == ConcVibrateInit /\ [][ConcVibrateNext]_vars

\* Two rotate commands handled concurrently on one device, each atomic
\* access to rotation_direction a step of its own.
ConcRotateInit == Init /\ motors = 1
ConcRotateNext ==
  \/ \E t \in Tasks, msg \in RotateCmds :
       task_call(t, [kind |-> "rotate", cmd |-> msg])
  \/ \E t \in Tasks : rotate_update(t)
  \/ \E t \in Tasks, ok \in BOOLEAN : task_write(t, ok)
  \/ \E t \in Tasks : rotate_load(t)
  \/ \E t \in Tasks : rotate_store(t)
  \/ \E t \in Tasks, ok \in BOOLEAN : rotate_change(t, ok)
ConcRotateSpec == ConcRotateInit /\ [][ConcRotateNext]_vars

\* The Evdev handler applied to a command set, and the writer's decoding of
\* what it produced.
EncodeInit ==
  /\ sc_cmds \in ScalarCmdSets
  /\ EncodeIdle
  /\ motors = 1
  /\ LovenseInit
  /\ DongleHandleInit
  /\ EvdevHandleInit
  /\ ScanManagerInit
  /\ QueryInit
  /\ TasksInit
EncodeNext == scalar_cmd \/ vibrate
EncodeSpec == EncodeInit /\ [][EncodeNext]_vars
\* The runtime keeps polling the task that awaits the query.
QueryFairSpec == QuerySpec /\ WF_vars(query_task)

\* =================================================================== claims
\* The wire grammar of the Lovense family, written out for the claims.
WireAll(n) == "Vibrate:" \o ToString(n) \o ";"
WireOne(k, n) == "Vibrate" \o ToString(k) \o ":" \o ToString(n) \o ";"
WireRotate(n) == "Rotate:" \o ToString(n) \o ";"
WireRotateChange == "RotateChange;"

\* Positions of the present entries of a delta, and the place of position p
\* among them.
Present(cmds) == {p \in 1..Len(cmds) : cmds[p] # None}
Rank(cmds, p) == Cardinality({q \in Present(cmds) : q <= p})
AllSame(cmds) == \A p, q \in Present(cmds) : cmds[p] = cmds[q]
\* ws holds, in index order, the per-motor writes of the first Len(ws)
\* present entries of cmds and nothing else.
PerMotorPrefix(cmds, ws) ==
  /\ Len(ws) <= Cardinality(Present(cmds))
  /\ \A p \in Present(cmds) :
       Rank(cmds, p) <= Len(ws) => ws[Rank(cmds, p)] = WireOne(p, cmds[p][1])

\* C1 (as stated): when every present entry of the delta carries the same
\* value the handler issues exactly one set-all write and no per-motor
\* write, absent entries not counting; otherwise exactly one per-motor write
\* per present entry.  Stated for commands whose writes all succeed.
C1_SetAllOverPresentEntries ==
  (lastOp = "vibrate" /\ lastDelta # None /\ lastResult = "Ok") =>
    LET cmds == lastDelta[1]
    IN  IF AllSame(cmds)
        THEN \E p \in Present(cmds) : writes = <<WireAll(cmds[p][1])>>
        ELSE Len(writes) = Cardinality(Present(cmds)) /\ PerMotorPrefix(cmds, writes)

\* C1 (amended): the handler issues exactly one set-all write "Vibrate:<n>;"
\* and no per-motor write when every entry of the delta is present and all
\* carry the same value n; otherwise (some entry absent, or two present
\* entries differ) it issues, in index order, one "Vibrate<k>:<n>;" write per
\* present entry (k = index + 1) and none for absent entries, stopping after
\* the first write that fails.
C1_SetAllOnlyWhenAllPresent ==
  (lastOp = "vibrate" /\ lastDelta # None) =>
    LET cmds == lastDelta[1]
    IN  IF Present(cmds) = 1..Len(cmds) /\ AllSame(cmds)
        THEN writes = <<WireAll(cmds[1][1])>>
        ELSE /\ PerMotorPrefix(cmds, writes)
             /\ Len(writes) >= 1
             /\ lastResult = "Ok" => Len(writes) = Cardinality(Present(cmds))
             /\ Len(writes) < Cardinality(Present(cmds)) => lastResult = "WriteError"

\* C1 witness: a delta with an absent entry whose present entries agree was
\* handled by per-motor writes.
C1_Witness ==
  /\ lastOp = "vibrate" /\ lastDelta # None /\ lastResult = "Ok"
  /\ Present(lastDelta[1]) # 1..Len(lastDelta[1])
  /\ AllSame(lastDelta[1])
  /\ \E p \in Present(lastDelta[1]) : writes = <<WireOne(p, lastDelta[1][p][1])>>

\* The last command gave both motors of a 2-motor device the same value and
\* caused a write.
BothMotorsSame(cmd, ws) ==
  motors = 2 /\ DOMAIN cmd = {1, 2} /\ cmd[1] = cmd[2] /\ ws # <<>>

\* C2 (as stated): on a 2-motor device a vibrate command giving both motors
\* the same value, if it causes any write, causes exactly the one set-all
\* write and never a per-motor write.
C2_EqualValuesAlwaysSetAll ==
  (lastOp = "vibrate" /\ BothMotorsSame(lastCmd, writes)) =>
    writes = <<WireAll(lastCmd[1])>>

\* C2 (amended): such a command, if it causes any write, causes exactly one
\* write: the set-all write "Vibrate:<n>;" when the stored values of both
\* motors differed from n, and the per-motor write "Vibrate<k>:<n>;" of the
\* one motor k whose stored value differed otherwise; never two per-motor
\* writes.
C2_EqualValuesOneWrite ==
  [][(lastOp' = "vibrate" /\ BothMotorsSame(lastCmd', writes')) =>
       LET n == lastCmd'[1]
           differed == {k \in {1, 2} : vibrations[k] # n}
       IN  IF differed = {1, 2}
           THEN writes' = <<WireAll(n)>>
           ELSE \E k \in differed : differed = {k} /\ writes' = <<WireOne(k, n)>>
    ]_vars

\* C2 witness: equal values for both motors were sent as one per-motor write.
C2_Witness ==
  /\ lastOp = "vibrate" /\ BothMotorsSame(lastCmd, writes)
  /\ writes = <<WireOne(2, lastCmd[1])>>

\* C3: handling a vibrate command again right after a handling of it that
\* resolved Ok issues no write and resolves Ok; and a handling issues at
\* least one write whenever some addressed value differs from the stored
\* last-sent value.
C3_DedupIdempotent ==
  [][/\ (lastOp = "vibrate" /\ lastResult = "Ok" /\ lastOp' = "vibrate"
          /\ lastCmd' = lastCmd)
        => (writes' = <<>> /\ lastResult' = "Ok")
     /\ (lastOp' = "vibrate" /\ lastResult' # "InvalidCommand"
          /\ \E p \in DOMAIN lastCmd' : lastCmd'[p] # vibrations[p])
        => writes' # <<>>
    ]_vars

\* C3 witness: a command asking a non-zero speed resolved Ok without a write
\* (the speed had been sent before).
C3_Witness ==
  /\ lastOp = "vibrate" /\ lastResult = "Ok" /\ writes = <<>>
  /\ \E p \in DOMAIN lastCmd : lastCmd[p] # 0

HasRotateChange(ws) == \E i \in 1..Len(ws) : ws[i] = WireRotateChange

Processed == SubSeq(arrived, 1, Len(arrived) - Len(device_incoming))
TaggedToyData(m) == m.func = "ToyData"
IsNotification(e) == e[1] = "Notification"
IsRemoved(e) == e[1] = "Removed"
RemovedCount == Len(SelectSeq(events, IsRemoved))

\* C5: the Notification events emitted so far are exactly one
\* Notification(Address, Rx, payload) per ToyData message taken from the
\* channel, in arrival order; messages with another tag produce none.
C5_RelayRouting ==
  LET toy == SelectSeq(Processed, TaggedToyData)
      notes == SelectSeq(events, IsNotification)
  IN  /\ Len(notes) = Len(toy)
      /\ \A i \in 1..Len(toy) :
           notes[i] = <<"Notification", Address, "Rx", toy[i].data[1].data[1]>>

\* C5 witness: a status message carrying text and then a ToyData message
\* were taken, and only the ToyData payload was forwarded.
C5_Witness ==
  /\ Len(arrived) = 2 /\ device_incoming = <<>>
  /\ arrived[1].func = "Status" /\ arrived[1].data # None
  /\ arrived[2].func = "ToyData"
  /\ events = <<<<"Notification", Address, "Rx", arrived[2].data[1].data[1]>>>>

\* C6: Removed is emitted at most once, only once the incoming stream is
\* closed and drained, and no event follows it; and once the stream is
\* closed, Removed is eventually emitted.
C6_RemovedOnceAndTerminal ==
  /\ [](/\ RemovedCount <= 1
        /\ RemovedCount = 1 =>
             /\ events[Len(events)] = <<"Removed", Address>>
             /\ ~incoming_open /\ device_incoming = <<>>)
  /\ (~incoming_open ~> RemovedCount = 1)

\* C6 witness: a Notification was emitted, then the stream closed and
\* Removed was emitted last.
C6_Witness ==
  /\ Len(events) = 2
  /\ IsNotification(events[1])
  /\ events[2] = <<"Removed", Address>>

\* C7: a write_value started on a handle (relayed toy or evdev) whose
\* connection flag is false fails with NotConnected and hands nothing to the
\* transport: nothing is placed on the outgoing channel or the writer queue.
C7_WriteAfterDisconnectFails ==
  /\ (lastWrite.result # "none" /\ ~lastWrite.connected) =>
       (lastWrite.result = "NotConnected" /\ lastWrite.sent = None)
  /\ (lastEvWrite.result # "none" /\ ~lastEvWrite.connected) =>
       (lastEvWrite.result = "NotConnected" /\ ~lastEvWrite.queued)

\* C8: a write_value resolving while the outgoing channel is closed resolves
\* with NotConnected and enqueues nothing; one resolving while it is open
\* appends exactly the message {Command, Toy, id = address, command = data}
\* and resolves Ok.
C8_WriteReportsClosedChannel ==
  [][writeTick' # writeTick =>
       IF outgoing_open
       THEN /\ lastWrite'.result = "Ok"
            /\ device_outgoing' =
                 device_outgoing \o
                   <<[func |-> "Command", message_type |-> "Toy",
                      id |-> <<Address>>, command |-> <<lastWrite'.data>>,
                      eager |-> <<>>]>>
       ELSE /\ lastWrite'.result = "NotConnected"
            /\ device_outgoing' = device_outgoing
    ]_vars

\* C8 witness: a write on the closed channel resolved with NotConnected.
C8_Witness ==
  ~outgoing_open /\ ~lastWrite.open /\ lastWrite.result = "NotConnected"

\* C9: after disconnect() has completed a Removed event is eventually
\* emitted, and Removed is emitted at most once.
C9_DisconnectReportsRemoved ==
  /\ [](RemovedCount <= 1)
  /\ (~connected ~> RemovedCount = 1)

\* C10: in every state in which Removed has been emitted the connection
\* flag is false.
C10_RemovedImpliesDisconnected ==
  RemovedCount >= 1 => ~connected

\* C11: the connection flag of a handle (relayed toy or evdev) is true until
\* the first disconnect() and false ever after; every disconnect() call
\* resolves Ok and changes nothing but the flag, a repeated call changing
\* nothing at all: the listener keeps running, the channels, the writer
\* thread and its queue are left as they are; and a ToyData message the
\* listener takes after disconnect() is still forwarded as a Notification.
C11_DisconnectIdempotent ==
  /\ [](/\ connected <=> lastDisconnect.result = "none"
        /\ ev_connected <=> lastEvDisconnect.result = "none")
  /\ [][/\ connected' => connected
        /\ ev_connected' => ev_connected
        /\ lastDisconnect' # lastDisconnect =>
             /\ lastDisconnect'.result = "Ok"
             /\ ~connected'
             /\ <<device_incoming, incoming_open, listener, events,
                  device_outgoing, outgoing_open>>' =
                <<device_incoming, incoming_open, listener, events,
                  device_outgoing, outgoing_open>>
        /\ lastEvDisconnect' # lastEvDisconnect =>
             /\ lastEvDisconnect'.result = "Ok"
             /\ ~ev_connected'
             /\ <<write_queue, writer, effect_nodrop>>' =
                <<write_queue, writer, effect_nodrop>>
        /\ (~connected /\ device_incoming # <<>>
             /\ device_incoming' = Tail(device_incoming)
             /\ Head(device_incoming).func = "ToyData")
           => events' = events \o
                <<<<"Notification", Address, "Rx",
                    Head(device_incoming).data[1].data[1]>>>>
       ]_vars

\* C11 witness: disconnect() was called a second time, the listener still
\* runs and the outgoing channel is open, and a ToyData message that arrived
\* after the last call was forwarded.
C11_Witness ==
  /\ lastDisconnect.result = "Ok" /\ lastDisconnect.tick = FALSE
  /\ ~connected /\ listener = "running" /\ outgoing_open
  /\ lastDisconnect.seen = 0 /\ Len(arrived) = 1 /\ device_incoming = <<>>
  /\ arrived[1].func = "ToyData"
  /\ events = <<<<"Notification", Address, "Rx", arrived[1].data[1].data[1]>>>>

\* What a scan over a listing is to report: one DeviceFound for each entry
\* that is enumerated, named event*, opens and supports force feedback.
Qualifies(file) ==
  /\ file.enumerated
  /\ Len(file.file_name) >= 5
  /\ SubSeq(file.file_name, 1, 5) = <<"e", "v", "e", "n", "t">>
  /\ file.opens
  /\ file.supported_ff
RECURSIVE Expected(_, _)
Expected(listing, i) ==
  IF i > Len(listing) THEN <<>>
  ELSE (IF Qualifies(listing[i]) THEN <<<<"DeviceFound", i>>>> ELSE <<>>)
       \o Expected(listing, i + 1)
\* The last scan() called has ended, by returning or otherwise.
ScanEnded == scan_result # "none" /\ scan_pc \in {"idle", "panicked"}

\* C12: with the upstream event channel open, a scan() over any listing of
\* the input directory returns Ok having sent exactly one DeviceFound for
\* each qualifying entry and none for any other entry; an entry that cannot
\* be enumerated or opened does not keep the later entries from being
\* reported.
C12_ScanReportsEveryCandidate ==
  (ScanEnded /\ dir_listed /\ sender_open) =>
    (scan_result = "Ok" /\ found = Expected(events_dir, 1))

\* C13: when the input directory cannot be listed, the scan() ends with an
\* error result of its own and the retry loop goes back to waiting for its
\* next timer tick, from which scanning goes on.
C13_FailedScanIsRetried ==
  [][(scan_pc = "read_dir" /\ scan_pc' # "read_dir" /\ ~dir_listed') =>
       (scan_result' = "Err" /\ scan_pc' = "idle")
    ]_vars

\* The text before the first ':' of a response.
TokenOf(str) ==
  IF \E i \in 1..Len(str) : str[i] = ":"
  THEN SubSeq(str, 1, (CHOOSE i \in 1..Len(str) :
                         str[i] = ":" /\ \A j \in 1..(i - 1) : str[j] # ":") - 1)
  ELSE str

\* C14: in the identification handshake "DeviceType;" is written to Tx only
\* once the subscription has completed, and at most one notification is
\* consumed; the handshake resolves with the error of a failed subscribe or
\* write, with the token before the first ':' of the one notification it
\* consumed, or, when the stream closed before any notification arrived,
\* with DeviceConnectionError.
C14_HandshakeOrder ==
  q_op = "initialize" =>
    /\ \A i \in 1..Len(q_writes) :
         q_writes[i] = [endpoint |-> "Tx",
                        data |-> <<"D", "e", "v", "i", "c", "e", "T", "y", "p",
                                   "e", ";">>,
                        subscribed |-> TRUE]
    /\ Len(q_writes) <= 1 /\ Len(q_consumed) <= 1
    /\ q_consumed # <<>> => q_writes # <<>>
    /\ q_pc = "done" =>
         \/ q_result = [kind |-> "Err", err |-> "SubscribeError"]
              /\ q_writes = <<>> /\ q_consumed = <<>>
         \/ q_result = [kind |-> "Err", err |-> "WriteError"]
              /\ Len(q_writes) = 1 /\ q_consumed = <<>>
         \/ Len(q_consumed) = 1
              /\ q_result = [kind |-> "Identifier", token |-> TokenOf(q_consumed[1])]
         \/ q_result = [kind |-> "Err", err |-> "DeviceConnectionError"]
              /\ Len(q_writes) = 1 /\ q_consumed = <<>> /\ ~stream_open
    /\ q_pc # "panicked"

\* C14 witness: the handshake resolved with the token "C" of the response
\* "C:11:A;".
C14_Witness ==
  /\ q_op = "initialize" /\ q_pc = "done"
  /\ q_consumed = << <<"C", ":", "1", "1", ":", "A", ";">> >>
  /\ q_result = [kind |-> "Identifier", token |-> <<"C">>]

\* The decimal text of a number, and the response "<n>;".
RECURSIVE DecimalText(_)
DecimalText(n) ==
  IF n < 10 THEN <<ToString(n)>>
  ELSE Append(DecimalText(n \div 10), ToString(n % 10))
PercentResponse(n) == Append(DecimalText(n), ";")

\* C15: a battery query writes "Battery;" to Tx only once subscribed and
\* consumes at most one notification; for a response "<n>;", n a decimal
\* percentage, it resolves with the reading n/100; and, its subscribe and
\* write having succeeded, it fails with NotConnected if and only if the
\* stream closed before a notification arrived.
C15_BatteryQuery ==
  q_op = "battery" =>
    /\ \A i \in 1..Len(q_writes) :
         q_writes[i] = [endpoint |-> "Tx",
                        data |-> <<"B", "a", "t", "t", "e", "r", "y", ";">>,
                        subscribed |-> TRUE]
    /\ Len(q_writes) <= 1 /\ Len(q_consumed) <= 1
    /\ \A n \in 0..100 :
         (q_pc \in {"done", "panicked"} /\ q_consumed = <<PercentResponse(n)>>)
           => q_result = [kind |-> "BatteryLevelReading", num |-> n, den |-> 100]
    /\ (q_pc \in {"done", "panicked"}
        /\ q_result \notin {[kind |-> "Err", err |-> "SubscribeError"],
                            [kind |-> "Err", err |-> "WriteError"]})
       => (q_result = [kind |-> "Err", err |-> "DeviceNotConnected"]
             <=> (q_consumed = <<>> /\ ~stream_open))

\* C16: every handshake and every battery query that has been called
\* eventually ends (a query that panics counting as ended), the toy being
\* free to stay connected without ever notifying.
C16_QueryResolves ==
  (q_pc \in {"subscribe", "write", "recv"}) ~> (q_pc \in {"done", "panicked"})

\* C17: for a command set whose entry 0 holds a value v in 0..65535,
\* handle_scalar_cmd returns exactly one write command, to Tx, whose data is
\* the two bytes of v, low byte first, and nothing else; and the magnitude
\* the writer reads from them as an unsigned 16-bit little-endian number
\* is v.
C17_EncodingRoundTrip ==
  (sc_result.kind # "none" /\ Len(sc_cmds) >= 1 /\ sc_cmds[1] # None
    /\ sc_cmds[1][1][2] \in 0..65535) =>
    LET v == sc_cmds[1][1][2]
    IN  /\ sc_result.kind = "Ok"
        /\ Len(sc_result.commands) = 1
        /\ sc_result.commands[1].endpoint = "Tx"
        /\ sc_result.commands[1].data = <<v % 256, v \div 256>>
        /\ sc_magnitude # None => sc_magnitude = <<v>>

\* C17 witness: the value 40000, which is negative as an i16, came back as
\* 40000.
C17_Witness ==
  /\ sc_cmds = << <<<<"Vibrate", 40000>>>> >>
  /\ sc_result.kind = "Ok"
  /\ sc_result.commands[1].data = <<64, 156>>
  /\ sc_magnitude = <<40000>>

\* C18: handle_scalar_cmd given a command set with a present entry at an
\* index other than 0 returns an error and no write command.
C18_OneActuatorOnly ==
  (sc_result.kind # "none" /\ \E i \in 2..Len(sc_cmds) : sc_cmds[i] # None) =>
    (sc_result.kind = "Err" /\ sc_result.commands = <<>>)

\* C19: when write number k of a vibrate command fails, the handler
\* resolves with that failure, the writes issued are the first k of the
\* command's writes and no later one, and the manager's stored values stay
\* at what the command asked; the same command handled again right after
\* issues no write.
C19_FailureSurfacesNoRollback ==
  [][/\ (lastOp' = "vibrate" /\ lastFailAt' > 0) =>
          /\ lastResult' = "WriteError"
          /\ Len(writes') = lastFailAt'
          /\ LET cmds == lastDelta'[1]
             IN  IF Present(cmds) = 1..Len(cmds) /\ AllSame(cmds)
                 THEN writes' = <<WireAll(cmds[1][1])>>
                 ELSE PerMotorPrefix(cmds, writes')
          /\ \A p \in DOMAIN lastCmd' : vibrations'[p] = lastCmd'[p]
     /\ (lastOp = "vibrate" /\ lastFailAt > 0 /\ lastOp' = "vibrate"
          /\ lastCmd' = lastCmd)
        => (writes' = <<>> /\ lastResult' = "Ok")
    ]_vars

\* C19 witness: the first of the two per-motor writes of a command failed,
\* the second was not issued, and both stored values are the requested
\* ones.
C19_Witness ==
  /\ lastOp = "vibrate" /\ lastResult = "WriteError" /\ lastFailAt = 1
  /\ lastCmd = <<1, 2>>
  /\ writes = <<WireOne(1, 1)>>
  /\ vibrations = <<1, 2>>

\* C20: a write_value called on an evdev handle whose writer thread has
\* exited (nothing can be queued any more) resolves with an error result: it
\* neither succeeds nor panics in the caller.
C20_WriteAfterWriterExitFails ==
  (lastEvWrite.result # "none" /\ ~lastEvWrite.queued) =>
    lastEvWrite.result \notin {"Ok", "panic"}

\* C21: in the handling of one rotate command "RotateChange;" is written
\* only as the second write, after the command's own "Rotate:<n>;" write
\* has succeeded; when the speed write fails the command resolves with that
\* error, no "RotateChange;" is written and rotation_direction keeps its
\* value.
C21_RotateChangeAfterSpeedWrite ==
  [][lastOp' = "rotate" =>
       /\ \A i \in 1..Len(writes') :
            writes'[i] = WireRotateChange =>
              /\ i = 2
              /\ writes'[1] = WireRotate(lastCmd'.speed)
              /\ lastFailAt' # 1
       /\ lastFailAt' = 1 =>
            /\ lastResult' = "WriteError"
            /\ writes' = <<WireRotate(lastCmd'.speed)>>
            /\ rotation_direction' = rotation_direction
    ]_vars

\* C21 witness: the speed write of a clockwise command failed on a device
\* whose flag is counter-clockwise: nothing else was written and the flag
\* is as it was.
C21_Witness ==
  /\ lastOp = "rotate" /\ lastFailAt = 1 /\ lastResult = "WriteError"
  /\ lastCmd = [speed |-> 1, clockwise |-> TRUE]
  /\ writes = <<WireRotate(1)>>
  /\ rotation_direction = FALSE

\* Every task has handled its command and resolved Ok.
AllResolvedOk == \A t \in Tasks : t_pc[t] = "done" /\ t_result[t] = "Ok"

\* C22: once two concurrent vibrate commands whose writes all succeeded
\* have both resolved, the speed last written to the toy for each motor is
\* the manager's stored last-sent value for it.
C22_HardwareMatchesManager ==
  AllResolvedOk => \A p \in 1..motors : hw_speeds[p] = vibrations[p]

\* C23: once the concurrent rotate commands, whose writes all succeeded,
\* have all resolved, as many "RotateChange;" writes were issued as
\* rotation_direction changed value, and the toy's direction is the flag's.
C23_RotateChangesMatchFlag ==
  AllResolvedOk =>
    (rotate_changes = flag_changes /\ hw_clockwise = rotation_direction)

=============================================================================
